---- MODULE Spec2Model ----
(***************************************************************************)
(* A model of AminoAcidCaller (src/src/AminoAcidCaller.cpp): the per-codon *)
(* variant caller CallVariants, run by the constructor, followed by one    *)
(* call of the haplotype phaser PhaseVariants.                             *)
(*                                                                         *)
(* Representation.  A base is a one-character string; a codon, a row's     *)
(* Bases and the reference sequence are sequences of bases (the empty      *)
(* sequence is the empty std::string).  A read's name is the index of its  *)
(* row.  A std::map is a function on its keys; aminoAcidToCodons, a map    *)
(* from amino acid to a vector of VariantCodon, is the set of its          *)
(* VariantCodon records, each carrying its amino acid (a codon occurs at   *)
(* most once at a position).  A ratio of two integers kept in a double     *)
(* (frequency, GlobalFrequency) is the pair of the two integers, and every *)
(* comparison of such a ratio is made by cross-multiplication.             *)
(* P-values are integers in units of 1/PScale.                             *)
(***************************************************************************)
EXTENDS Integers, Sequences, FiniteSets, TLC

(***************************************************************************)
(* Bounds of the checked instances.                                        *)
(***************************************************************************)
\* the largest number of blocks of equal rows an input MSA is made of
MaxBlocks ==
  2

\* the bits of the mantissa of a double in the checked runs
MantissaBits ==
  9

(***************************************************************************)
(* Collaborators outside AminoAcidCaller.cpp.                              *)
(***************************************************************************)
\* AminoAcidTable::FromCodon: the standard genetic code over T,C,A,G; the
\* stop triplets (marked "*") are not keys of the table.
CodeBases ==
  <<"T", "C", "A", "G">>

CodeTable ==
  << "F","F","L","L", "S","S","S","S", "Y","Y","*","*", "C","C","*","W",
     "L","L","L","L", "P","P","P","P", "H","H","Q","Q", "R","R","R","R",
     "I","I","I","M", "T","T","T","T", "N","N","K","K", "S","S","R","R",
     "V","V","V","V", "A","A","A","A", "D","D","E","E", "G","G","G","G" >>

BaseIndex(b) ==
  CHOOSE k \in 1..4 : CodeBases[k] = b

CodeIndex(c) ==
  16 * (BaseIndex(c[1]) - 1) + 4 * (BaseIndex(c[2]) - 1) + BaseIndex(c[3])

FromCodon ==
  [c \in {t \in [1..3 -> {"T", "C", "A", "G"}] : CodeTable[CodeIndex(t)] # "*"}
     |-> CodeTable[CodeIndex(c)]]

\* AAT::FromCodon.find(codon) != AAT::FromCodon.cend()
IsCodon(codon) ==
  codon \in DOMAIN FromCodon

\* the significance threshold alpha of AminoAcidCaller.h, 0.01, in units of 1/PScale
PScale ==
  10000

alpha ==
  100

\* Statistics::Fisher::fisher_exact_tiss: the raw p-values the test may return,
\* in units of 1/PScale.  The test lies outside this file, and so does the
\* error model that gives its contingency table the expected counts; its
\* result is an input of every call of it.
RawPValues ==
  {1, 30, PScale}

\* HaplotypeType (HaplotypeType.h): a Flags bit mask is the set of its bits.
OFFTARGET ==
  "OFFTARGET"

LOW_COV ==
  "LOW_COV"

\* std::string operator< on codons: bases compare by character code
CharCode(b) ==
  CASE b = " " -> 32 [] b = "-" -> 45 [] b = "A" -> 65 [] b = "C" -> 67
    [] b = "G" -> 71 [] b = "N" -> 78 [] b = "T" -> 84

RECURSIVE StringLess(_, _)
StringLess(a, b) ==
  IF b = <<>> THEN FALSE
  ELSE IF a = <<>> THEN TRUE
  ELSE IF CharCode(Head(a)) # CharCode(Head(b)) THEN CharCode(Head(a)) < CharCode(Head(b))
  ELSE StringLess(Tail(a), Tail(b))

\* std::string::substr(pos, n) for pos <= size()
Substr(s, pos, n) ==
  SubSeq(s, pos + 1, IF pos + n <= Len(s) THEN pos + n ELSE Len(s))

\* TargetConfig::NumExpectedMinors: the minors configured over all target genes
RECURSIVE NumExpectedMinors(_)
NumExpectedMinors(genes) ==
  IF genes = <<>> THEN 0
  ELSE Cardinality(Head(genes).minors) + NumExpectedMinors(Tail(genes))

(***************************************************************************)
(* The state: the members of AminoAcidCaller, the locals of CallVariants   *)
(* and PhaseVariants that live across their loops, and the position of the *)
(* run.                                                                    *)
(***************************************************************************)
VARIABLES
  msaByRow_,        \* [BeginPos, EndPos, Rows]: Rows[r] is row r's Bases
  targetConfig_,    \* [targetGenes, referenceSequence]
  mergeOutliers_, debug_, drmOnly_, minimalPerc_, maximalPerc_,
  fisherRange,      \* the raw p-values the Fisher test returns in this run
  pc,               \* where the run stands
  genes,            \* CallVariants: the genes worked on
  numberOfTests,    \* CallVariants: the Bonferroni multiplier
  geneIdx,          \* CallVariants: index of the gene of the outer loop
  i,                \* CallVariants: the codon start of the inner loop
  curVariantGene, geneName, geneOffset,
  performance,      \* [truePositives, falsePositives, falseNegative, trueNegative]
  variantGenes_,
  tested,           \* history: every codon call tested, with the p-value it got
                    \* and the DRM annotation found for it
  censusSizes,      \* history: the sizes of the codon maps CallVariants built
  variantPositions, observations, generators, filtered,
  reconstructedHaplotypes_, filteredHaplotypes_,
  counts_           \* [genCounts_, lowCov_, margOfftarget_, margWithGap_, margWithHetero_, margPartial_]

inputs ==
  <<msaByRow_, targetConfig_, mergeOutliers_, debug_, drmOnly_, minimalPerc_, maximalPerc_,
    fisherRange>>

callVars ==
  <<genes, numberOfTests, geneIdx, i, curVariantGene, geneName, geneOffset,
    performance, variantGenes_, tested, censusSizes>>

phaseVars ==
  <<variantPositions, observations, generators, filtered,
    reconstructedHaplotypes_, filteredHaplotypes_, counts_>>

vars ==
  <<inputs, pc, callVars, phaseVars>>

(***************************************************************************)
(* The codon census.                                                       *)
(***************************************************************************)
\* std::string() + row.at(bi) + row.at(bi + 1) + row.at(bi + 2)
CodonOfRow(row, bi) ==
  <<row[bi + 1], row[bi + 2], row[bi + 3]>>

\* CountCodons without the lookup in FromCodon: bogus codons are counted too
CountCodonsBogusCounted(rows, bi) ==
  {CodonOfRow(rows[k], bi) :
     k \in {k \in 1..Len(rows) :
              /\ ~(bi + 2 >= Len(rows[k]) \/ bi < 0)
              /\ ~(rows[k][bi + 1] = " " \/ rows[k][bi + 2] = " " \/ rows[k][bi + 3] = " ")
              /\ ~(rows[k][bi + 1] = "-" \/ rows[k][bi + 2] = "-" \/ rows[k][bi + 3] = "-")}}

\* CountNumberOfTests, the loop over the rows at one codon start: the keys of
\* the map codons once every row is read; a row is passed over when the codon
\* leaves it, holds a space or a gap, or is no key of FromCodon
CountCodons(rows, bi) ==
  {CodonOfRow(rows[k], bi) :
     k \in {k \in 1..Len(rows) :
              /\ ~(bi + 2 >= Len(rows[k]) \/ bi < 0)
              /\ ~(rows[k][bi + 1] = " " \/ rows[k][bi + 2] = " " \/ rows[k][bi + 3] = " ")
              /\ ~(rows[k][bi + 1] = "-" \/ rows[k][bi + 2] = "-" \/ rows[k][bi + 3] = "-")
              /\ IsCodon(CodonOfRow(rows[k], bi))}}

\* CountNumberOfTests, the loop over the positions of one gene from position i on
RECURSIVE CountGene(_, _, _, _)
CountGene(msa, gene, pos, n) ==
  IF pos >= gene.end - 2 THEN n
  ELSE IF (pos - gene.begin) % 3 # 0 THEN CountGene(msa, gene, pos + 1, n)
  ELSE CountGene(msa, gene, pos + 1,
                 n + Cardinality(CountCodons(msa.Rows, pos - msa.BeginPos)))

RECURSIVE CountGenes(_, _, _)
CountGenes(msa, gs, n) ==
  IF gs = <<>> THEN n
  ELSE CountGenes(msa, Tail(gs), CountGene(msa, Head(gs), Head(gs).begin, n))

CountNumberOfTests(msa, gs) ==
  CountGenes(msa, gs, 0)

\* CallVariants: whether a row is counted at the codon starting at offset bi
RowCallsCodon(row, bi) ==
  /\ ~(bi + 2 >= Len(row) \/ bi < 0)
  /\ ~(\E k \in 1..3 : row[bi + k] = " ")
  /\ ~(\E k \in 1..3 : row[bi + k] = "-")
  /\ IsCodon(CodonOfRow(row, bi))

\* CallVariants: the map codons (codon -> count) built at offset bi
Census(rows, bi) ==
  LET calling == {r \in 1..Len(rows) : RowCallsCodon(rows[r], bi)}
      seen == {CodonOfRow(rows[r], bi) : r \in calling}
  IN [c \in seen |-> Cardinality({r \in calling : CodonOfRow(rows[r], bi) = c})]

\* CallVariants: coverage, the rows counted at offset bi
Coverage(rows, bi) ==
  Cardinality({r \in 1..Len(rows) : RowCallsCodon(rows[r], bi)})

\* FindMajorityCall: <<count, codon, amino acid>> of the first codon, in the
\* order of the map, with the highest count
FindMajorityCall(codons) ==
  IF DOMAIN codons = {} THEN <<0, <<>>, " ">>
  ELSE LET top == CHOOSE n \in {codons[c] : c \in DOMAIN codons} :
                    \A c \in DOMAIN codons : codons[c] <= n
           majorCodon == CHOOSE c \in DOMAIN codons :
                    /\ codons[c] = top
                    /\ \A d \in DOMAIN codons : codons[d] = top => d = c \/ StringLess(c, d)
       IN IF ~IsCodon(majorCodon) THEN <<0, <<>>, " ">>
          ELSE <<top, majorCodon, FromCodon[majorCodon]>>

(***************************************************************************)
(* CallVariants.                                                           *)
(***************************************************************************)
\* a default-constructed VariantGene::VariantPosition
NewVariantPosition ==
  [refCodon |-> <<>>, refAminoAcid |-> " ", altRefCodon |-> <<>>, altRefAminoAcid |-> " ",
   coverage |-> 0, aminoAcidToCodons |-> {}]

\* a default-constructed VariantGene, then named
NewVariantGene(name, begin) ==
  [geneName |-> name, geneOffset |-> begin, relPositionToVariant |-> <<>>]

\* FindDRMs, the loop over the rule sets of one gene: the names of the sets
\* holding curDRM, in order (joined by " + " in the code; empty when none)
RECURSIVE DrmSummary(_, _)
DrmSummary(drms, curDRM) ==
  IF drms = <<>> THEN <<>>
  ELSE (IF curDRM \in Head(drms).positions THEN <<Head(drms).name>> ELSE <<>>)
       \o DrmSummary(Tail(drms), curDRM)

\* FindDRMs: the rule sets of the first gene named geneName
RECURSIVE FindDRMs(_, _, _)
FindDRMs(name, gs, curDRM) ==
  IF gs = <<>> THEN <<>>
  ELSE IF name = Head(gs).name THEN DrmSummary(Head(gs).drms, curDRM)
  ELSE FindDRMs(name, Tail(gs), curDRM)

DMutation(refAA, pos, curAA) ==
  [refAA |-> refAA, pos |-> pos, curAA |-> curAA]

\* MeasurePerformance, the lambda Predictor (minor.aminoacid is one character)
Predictor(tg, codonPos, aminoacid, codon) ==
  \E minor \in tg.minors :
    codonPos = minor.position /\ aminoacid = minor.aminoacid /\ codon = minor.codon

\* MeasurePerformance: relativeCoverage < 0.8, relativeCoverage being count / coverage
VariableSite(count, coverage) ==
  10 * count < 8 * coverage

\* MeasurePerformance when a predictor off a variable site is not counted
MeasurePerformanceVariableOnly(perf, variableSite, predictor, p) ==
  IF variableSite THEN
    IF predictor THEN
      IF p < alpha THEN [perf EXCEPT !.truePositives = @ + 1]
      ELSE [perf EXCEPT !.falseNegative = @ + 1]
    ELSE
      IF p < alpha THEN [perf EXCEPT !.falsePositives = @ + 1]
      ELSE [perf EXCEPT !.trueNegative = @ + 1]
  ELSE perf

\* MeasurePerformance: the counters after one call is classified
MeasurePerformance(perf, variableSite, predictor, p) ==
  IF variableSite THEN
    IF predictor THEN
      IF p < alpha THEN [perf EXCEPT !.truePositives = @ + 1]
      ELSE [perf EXCEPT !.falseNegative = @ + 1]
    ELSE
      IF p < alpha THEN [perf EXCEPT !.falsePositives = @ + 1]
      ELSE [perf EXCEPT !.trueNegative = @ + 1]
  ELSE IF predictor THEN
    IF p < alpha THEN [perf EXCEPT !.truePositives = @ + 1]
    ELSE [perf EXCEPT !.falseNegative = @ + 1]
  ELSE perf

\* CallVariants: the corrected p-value, raw * numberOfTests clamped to 1
Bonferroni(raw, tests) ==
  IF raw * tests > PScale THEN PScale ELSE raw * tests

\* StoreVariantStores with the floor applied in debug mode too
StoreVariantStoresFloorOnly(debug, minimalPerc, count, coverage) ==
  count * 100 >= minimalPerc * coverage

\* StoreVariant: whether the lambda, once called, stores the codon
\* (debug_ || freq * 100 >= minimalPerc_, freq being count / coverage)
StoreVariantStores(debug, minimalPerc, count, coverage) ==
  debug \/ count * 100 >= minimalPerc * coverage

\* StoreVariantCalled when the variable-site test is left out
StoreVariantCalledAnySite(debug, drmOnly, p, drm, predictorSite, variableSite, hasExpectedMinors) ==
  IF debug THEN TRUE
  ELSE IF p < alpha THEN
    IF drmOnly THEN drm # <<>>
    ELSE TRUE
  ELSE FALSE

\* StoreVariantCalled when the branch for no expected minors is left out
StoreVariantCalledMinorsOnly(debug, drmOnly, p, drm, predictorSite, variableSite, hasExpectedMinors) ==
  IF debug THEN TRUE
  ELSE IF p < alpha THEN
    IF drmOnly THEN drm # <<>>
    ELSE IF predictorSite THEN TRUE
    ELSE IF hasExpectedMinors /\ variableSite THEN TRUE
    ELSE FALSE
  ELSE FALSE

\* CallVariants: whether StoreVariant is called for a tested codon
StoreVariantCalled(debug, drmOnly, p, drm, predictorSite, variableSite, hasExpectedMinors) ==
  IF debug THEN TRUE
  ELSE IF p < alpha THEN
    IF drmOnly THEN drm # <<>>
    ELSE IF predictorSite THEN TRUE
    ELSE IF hasExpectedMinors /\ variableSite THEN TRUE
    ELSE IF ~hasExpectedMinors THEN TRUE
    ELSE FALSE
  ELSE FALSE

\* CallVariants: the reference of a position.  skip: the position is left
\* (continue) with what was written to it so far.
ResolveReference(vp, codons, coverage, ai, referenceSequence, maximalPerc) ==
  LET major == FindMajorityCall(codons) IN
  IF referenceSequence # <<>> THEN
    LET ref == Substr(referenceSequence, ai, 3)
        withRef == [vp EXCEPT !.refCodon = ref]
    IN IF ~IsCodon(ref) THEN [skip |-> TRUE, vp |-> withRef]
       ELSE LET withAA == [withRef EXCEPT !.refAminoAcid = FromCodon[ref]] IN
         IF major[1] = 0 THEN [skip |-> TRUE, vp |-> withAA]
         ELSE IF major[1] * 100 > maximalPerc * coverage
           THEN [skip |-> FALSE,
                 vp |-> [withAA EXCEPT !.altRefCodon = major[2], !.altRefAminoAcid = major[3]]]
         ELSE [skip |-> FALSE, vp |-> withAA]
  ELSE
    [skip |-> major[1] = 0,
     vp |-> [vp EXCEPT !.refCodon = major[2], !.refAminoAcid = major[3]]]

\* TestedCodons when the alternate reference is not passed over
TestedCodonsAltRefKept(vp, codons) ==
  {c \in DOMAIN codons : vp.refCodon # c}

\* CallVariants: the codons of the map that are tested, i.e. neither the
\* reference nor a non-empty alternate reference
TestedCodons(vp, codons) ==
  {c \in DOMAIN codons :
     /\ vp.refCodon # c
     /\ ~(vp.altRefCodon # <<>> /\ vp.altRefCodon = c)}

\* the codons of a set in the order of std::map<std::string, int>
RECURSIVE InMapOrder(_)
InMapOrder(S) ==
  IF S = {} THEN <<>>
  ELSE LET first == CHOOSE c \in S : \A d \in S : d = c \/ StringLess(c, d)
       IN <<first>> \o InMapOrder(S \ {first})

\* CallVariants, the loop over the codons of one position: st is
\* [vp, performance, tested]; raw gives the Fisher test's result per codon
RECURSIVE TestCodons(_, _, _, _, _, _)
TestCodons(todo, st, codons, coverage, raw, env) ==
  IF todo = <<>> THEN st
  ELSE
    LET codon == Head(todo)
        count == codons[codon]
        p == Bonferroni(raw[codon], env.numberOfTests)
        curAA == FromCodon[codon]
        predictorSite == Predictor(env.gene, env.codonPos, curAA, codon)
        variableSite == VariableSite(count, coverage)
        drm == FindDRMs(env.geneName, env.genes,
                        DMutation(st.vp.refAminoAcid, env.codonPos, curAA))
        stored ==
          /\ StoreVariantCalled(env.debug, env.drmOnly, p, drm, predictorSite,
                                variableSite, env.hasExpectedMinors)
          /\ StoreVariantStores(env.debug, env.minimalPerc, count, coverage)
        curVariantCodon ==
          [codon |-> codon, aminoAcid |-> curAA, frequency |-> <<count, coverage>>,
           pValue |-> p, knownDRM |-> drm, haplotypeHit |-> <<>>]
        call ==
          [geneName |-> env.geneName, codonPos |-> env.codonPos, codon |-> codon,
           count |-> count, coverage |-> coverage, raw |-> raw[codon], p |-> p,
           knownDRM |-> drm]
    IN TestCodons(Tail(todo),
         [vp |-> IF stored
                   THEN [st.vp EXCEPT !.aminoAcidToCodons = @ \cup {curVariantCodon}]
                   ELSE st.vp,
          performance |-> MeasurePerformance(st.performance, variableSite, predictorSite, p),
          tested |-> st.tested \cup {call}],
         codons, coverage, raw, env)

\* CallVariants up to its loops: the genes (the whole window as one unnamed
\* gene when none is configured), the test count, the counters
CallVariantsBegin ==
  /\ pc = "CallVariants"
  /\ genes' = IF targetConfig_.targetGenes = <<>>
                THEN <<[begin |-> msaByRow_.BeginPos, end |-> msaByRow_.EndPos,
                        name |-> "Unnamed ORF", minors |-> {}, drms |-> <<>>]>>
                ELSE targetConfig_.targetGenes
  /\ numberOfTests' = CountNumberOfTests(msaByRow_, genes')
  /\ performance' = [truePositives |-> 0, falsePositives |-> 0,
                     falseNegative |-> 0, trueNegative |-> 0]
  /\ geneIdx' = 1
  /\ pc' = "gene"
  /\ UNCHANGED <<inputs, i, curVariantGene, geneName, geneOffset, variantGenes_,
                 tested, censusSizes, phaseVars>>

\* the head of the loop over the genes: SetNewGene(gene.begin, gene.name)
SetNewGene ==
  /\ pc = "gene"
  /\ LET gene == genes[geneIdx] IN
       /\ geneName' = gene.name
       /\ variantGenes_' = IF DOMAIN curVariantGene.relPositionToVariant # {}
                             THEN Append(variantGenes_, curVariantGene)
                             ELSE variantGenes_
       /\ curVariantGene' = NewVariantGene(gene.name, gene.begin)
       /\ geneOffset' = gene.begin
       /\ i' = gene.begin
  /\ pc' = "position"
  /\ UNCHANGED <<inputs, genes, numberOfTests, geneIdx, performance, tested,
                 censusSizes, phaseVars>>

\* one codon start i of the loop over the positions of a gene (the loop
\* passes over the two positions that follow it: ri % 3 != 0)
CallPosition ==
  /\ pc = "position"
  /\ i < genes[geneIdx].end - 2
  /\ LET gene == genes[geneIdx]
         ai == i - 1
         ri == i - geneOffset
         bi == i - msaByRow_.BeginPos
         codonPos == 1 + (ri \div 3)
         codons == Census(msaByRow_.Rows, bi)
         coverage == Coverage(msaByRow_.Rows, bi)
         resolved == ResolveReference(NewVariantPosition, codons, coverage, ai,
                                      targetConfig_.referenceSequence, maximalPerc_)
         todo == TestedCodons(resolved.vp, codons)
         env == [gene |-> gene, geneIdx |-> geneIdx, geneName |-> geneName,
                 genes |-> genes, codonPos |-> codonPos, numberOfTests |-> numberOfTests,
                 debug |-> debug_, drmOnly |-> drmOnly_, minimalPerc |-> minimalPerc_,
                 hasExpectedMinors |-> NumExpectedMinors(targetConfig_.targetGenes) > 0]
         start == [vp |-> resolved.vp, performance |-> performance, tested |-> tested]
     IN
       /\ censusSizes' = censusSizes + Cardinality(DOMAIN codons)
       /\ \E raw \in [IF resolved.skip THEN {} ELSE todo -> fisherRange] :
            LET st == IF resolved.skip THEN start
                      ELSE TestCodons(InMapOrder(todo), start, codons, coverage, raw, env)
                vp == IF st.vp.aminoAcidToCodons # {}
                        THEN [st.vp EXCEPT !.coverage = coverage]
                        ELSE st.vp
            IN /\ curVariantGene' =
                    [curVariantGene EXCEPT !.relPositionToVariant = @ @@ (codonPos :> vp)]
               /\ performance' = st.performance
               /\ tested' = st.tested
  /\ i' = i + 3
  /\ UNCHANGED <<inputs, pc, genes, numberOfTests, geneIdx, geneName, geneOffset,
                 variantGenes_, phaseVars>>

\* the loop over the positions of a gene ends
NextGene ==
  /\ pc = "position"
  /\ ~(i < genes[geneIdx].end - 2)
  /\ geneIdx' = geneIdx + 1
  /\ pc' = IF geneIdx < Len(genes) THEN "gene" ELSE "finish"
  /\ UNCHANGED <<inputs, genes, numberOfTests, i, curVariantGene, geneName, geneOffset,
                 performance, variantGenes_, tested, censusSizes, phaseVars>>

\* CallVariants after its loops: the last gene is kept when it has positions
CallVariantsEnd ==
  /\ pc = "finish"
  /\ variantGenes_' = IF DOMAIN curVariantGene.relPositionToVariant # {}
                        THEN Append(variantGenes_, curVariantGene)
                        ELSE variantGenes_
  /\ pc' = "PhaseVariants"
  /\ UNCHANGED <<inputs, genes, numberOfTests, geneIdx, i, curVariantGene, geneName,
                 geneOffset, performance, tested, censusSizes, phaseVars>>

(***************************************************************************)
(* PhaseVariants.                                                          *)
(***************************************************************************)
\* VariantPosition::IsVariant: the position holds a VariantCodon
IsVariant(vp) ==
  vp.aminoAcidToCodons # {}

\* VariantPosition::IsHit: the codon is one of the position's VariantCodons
IsHit(vp, codon) ==
  \E vc \in vp.aminoAcidToCodons : vc.codon = codon

\* Haplotype::Size: the number of reads of the cluster
Size(h) ==
  Len(h.Names)

\* the VariantPosition a pair of variantPositions points to
PositionOf(vgs, pos_var) ==
  vgs[pos_var.gene].relPositionToVariant[pos_var.codonPos]

\* the keys of a std::map<int, ...> in order
RECURSIVE InKeyOrder(_)
InKeyOrder(S) ==
  IF S = {} THEN <<>>
  ELSE LET first == CHOOSE k \in S : \A m \in S : k <= m
       IN <<first>> \o InKeyOrder(S \ {first})

\* the variant positions of one VariantGene, its keys taken in order
RECURSIVE GeneVariantPositions(_, _, _)
GeneVariantPositions(vgs, g, keys) ==
  IF keys = <<>> THEN <<>>
  ELSE (IF IsVariant(vgs[g].relPositionToVariant[Head(keys)])
          THEN <<[first |-> vgs[g].geneOffset + Head(keys) * 3,
                  gene |-> g, codonPos |-> Head(keys)]>>
          ELSE <<>>)
       \o GeneVariantPositions(vgs, g, Tail(keys))

\* PhaseVariants: the list variantPositions, gathered gene after gene from g on
RECURSIVE CollectVariantPositions(_, _)
CollectVariantPositions(vgs, g) ==
  IF g > Len(vgs) THEN <<>>
  ELSE GeneVariantPositions(vgs, g, InKeyOrder(DOMAIN vgs[g].relPositionToVariant))
       \o CollectVariantPositions(vgs, g + 1)

\* ExtractRegionFromRow(row, pos_var, 0, 3): row->Bases.at(local + i) throws
\* std::out_of_range when local + i is no index of the row
ExtractThrows(row, first, BeginPos) ==
  LET local == first - BeginPos - 3
  IN \E k \in 0..2 : local + k < 0 \/ local + k >= Len(row)

ExtractRegionFromRow(row, first, BeginPos) ==
  LET local == first - BeginPos - 3
  IN <<row[local + 1], row[local + 2], row[local + 3]>>

\* CompareHaplotypes: whether the row's codons are those of haplotype h
SameHaplotype(h, codons) ==
  /\ Len(h.Codons) = Len(codons)
  /\ \A k \in 1..Len(codons) : h.Codons[k] = codons[k]

\* CompareHaplotypes: the row's name goes to the first haplotype, from k on,
\* with its codons; <<miss, haplotypes>>
RECURSIVE CompareHaplotypes(_, _, _, _)
CompareHaplotypes(haplotypes, k, codons, name) ==
  IF k > Len(haplotypes) THEN <<TRUE, haplotypes>>
  ELSE IF SameHaplotype(haplotypes[k], codons)
    THEN <<FALSE, [haplotypes EXCEPT ![k].Names = Append(@, name)]>>
  ELSE CompareHaplotypes(haplotypes, k + 1, codons, name)

\* a default-constructed Haplotype with the names, codons and flags given
NewHaplotype(names, codons, flags) ==
  [Names |-> names, Codons |-> codons, Flags |-> flags, SoftCollapses |-> <<>>,
   Name |-> <<>>, GlobalFrequency |-> <<0, 1>>]

\* PhaseVariants, the body of the loop over the rows for the row named r:
\* its codons at the variant positions, its flag, its haplotype
ClusterRow(obs, row, r, vps, vgs, BeginPos) ==
  LET codons == [k \in 1..Len(vps) |-> ExtractRegionFromRow(row, vps[k].first, BeginPos)]
      flag == IF \E k \in 1..Len(vps) : ~IsHit(PositionOf(vgs, vps[k]), codons[k])
                THEN {OFFTARGET} ELSE {}
      compared == CompareHaplotypes(obs, 1, codons, r)
  IN IF compared[1] THEN Append(obs, NewHaplotype(<<r>>, codons, flag))
     ELSE compared[2]

\* PhaseVariants, the loop over the rows first..last entered with the
\* observations obs: the observations it leaves, or the exception that ends
\* it.  The rows are read in order; the range is read as two halves, one
\* after the other, so that the evaluation nests no deeper than the logarithm
\* of the number of rows.
RECURSIVE ClusterRows(_, _, _, _, _, _)
ClusterRows(obs, first, last, msa, vps, vgs) ==
  IF first > last THEN [thrown |-> FALSE, observations |-> obs]
  ELSE IF first = last
    THEN IF \E k \in 1..Len(vps) :
              ExtractThrows(msa.Rows[first], vps[k].first, msa.BeginPos)
           THEN [thrown |-> TRUE, observations |-> obs]
           ELSE [thrown |-> FALSE,
                 observations |-> ClusterRow(obs, msa.Rows[first], first,
                                             vps, vgs, msa.BeginPos)]
  ELSE LET middle == (first + last) \div 2
           before == ClusterRows(obs, first, middle, msa, vps, vgs)
       IN IF before.thrown THEN before
          ELSE ClusterRows(before.observations, middle + 1, last, msa, vps, vgs)

\* the fewest reads a haplotype needs not to be flagged LOW_COV
MinGeneratorSize ==
  10

\* Classify with the bound off by one: Size() <= 10
ClassifyInclusive(h) ==
  IF Size(h) <= MinGeneratorSize THEN [h EXCEPT !.Flags = @ \cup {LOW_COV}] ELSE h

\* PhaseVariants: the flags of an observation once its size is judged
Classify(h) ==
  IF Size(h) < MinGeneratorSize THEN [h EXCEPT !.Flags = @ \cup {LOW_COV}] ELSE h

\* PhaseVariants: the observations without a flag, in order (keep), or the
\* others (~keep)
RECURSIVE FlagFree(_, _)
FlagFree(hs, keep) ==
  IF hs = <<>> THEN <<>>
  ELSE (IF (Head(hs).Flags = {}) <=> keep THEN <<Head(hs)>> ELSE <<>>)
       \o FlagFree(Tail(hs), keep)

\* the set of the members of a sequence
Members(hs) ==
  {hs[k] : k \in 1..Len(hs)}

\* the orders of the haplotypes of S in which sizes never decrease
RECURSIVE AscendingOrders(_)
AscendingOrders(S) ==
  IF S = {} THEN {<<>>}
  ELSE UNION {{<<h>> \o t : t \in AscendingOrders(S \ {h})} :
              h \in {x \in S : \A y \in S : Size(x) <= Size(y)}}

\* the orders of the haplotypes of S in which sizes never increase
RECURSIVE DescendingOrders(_)
DescendingOrders(S) ==
  IF S = {} THEN {<<>>}
  ELSE UNION {{<<h>> \o t : t \in DescendingOrders(S \ {h})} :
              h \in {x \in S : \A y \in S : Size(x) >= Size(y)}}

\* std::sort with HaplotypeComp (ascending by size): equal sizes may come out
\* in any order
StdSortAscending(hs) ==
  AscendingOrders(Members(hs))

\* StableSortDescending with the comparison turned round
StableSortAscending(hs) ==
  AscendingOrders(Members(hs))

\* std::stable_sort with a->Size() >= b->Size(), which is no strict weak
\* ordering: with sizes all different the order is the descending one; with
\* equal sizes the behaviour is undefined, and a build leaves them in an order
\* of its own
StableSortDescending(hs) ==
  DescendingOrders(Members(hs))

\* TransitionTable::Transition, in units of 1/100: codons over A,C,G,T that
\* differ in no base, in one base, in more; 0 for any other pair
Transition(a, b) ==
  IF ~(IsCodon(a) /\ IsCodon(b)) THEN 0
  ELSE LET differing == Cardinality({k \in 1..3 : a[k] # b[k]})
       IN CASE differing = 0 -> 97 [] differing = 1 -> 1 [] OTHER -> 0

(***************************************************************************)
(* The doubles of the soft collapse.  A double is kept as <<m, k>>, the     *)
(* number m * 2^k with a mantissa m of MantissaBits bits (2^(bits-1) <= m   *)
(* < 2^bits), or <<0, 0>>; every operation gives the exact result rounded   *)
(* to the nearest such number, ties to the even mantissa, as IEEE 754 does  *)
(* with 53 bits.                                                            *)
(***************************************************************************)
\* 2 to the power n
Pow2(n) ==
  2^n

\* the double nearest to (n / d) * 2^k, for n >= 0 and d > 0
RECURSIVE RoundDouble(_, _, _)
RoundDouble(n, d, k) ==
  IF n = 0 THEN <<0, 0>>
  ELSE IF n >= d * Pow2(MantissaBits) THEN RoundDouble(n, 2 * d, k + 1)
  ELSE IF n < d * Pow2(MantissaBits - 1) THEN RoundDouble(2 * n, d, k - 1)
  ELSE LET q == n \div d
           r == n % d
           m == IF 2 * r > d \/ (2 * r = d /\ q % 2 = 1) THEN q + 1 ELSE q
       IN IF m = Pow2(MantissaBits) THEN <<Pow2(MantissaBits - 1), k + 1>> ELSE <<m, k>>

\* the double of an int
DoubleOf(n) ==
  RoundDouble(n, 1, 0)

\* a * b, a / b (b not 0) and a + b on doubles
DoubleMul(a, b) ==
  RoundDouble(a[1] * b[1], 1, a[2] + b[2])

DoubleDiv(a, b) ==
  RoundDouble(a[1], b[1], a[2] - b[2])

DoubleAdd(a, b) ==
  IF a[1] = 0 THEN b
  ELSE IF b[1] = 0 THEN a
  ELSE LET low == IF a[2] < b[2] THEN a[2] ELSE b[2]
       IN RoundDouble(a[1] * Pow2(a[2] - low) + b[1] * Pow2(b[2] - low), 1, low)

\* std::accumulate(f.cbegin(), f.cend(), 0.0) over the first k doubles of f
RECURSIVE Accumulate(_, _)
Accumulate(f, k) ==
  IF k = 0 THEN <<0, 0>> ELSE DoubleAdd(Accumulate(f, k - 1), f[k])

\* the soft-collapse loop over the codons from slot a on: p, the product so
\* far, is multiplied by every transition that is not 0
RECURSIVE JointTransition(_, _, _, _)
JointTransition(hn, hw, a, p) ==
  IF a > Len(hw.Codons) THEN p
  ELSE LET p2 == RoundDouble(Transition(hn.Codons[a], hw.Codons[a]), 100, 0)
       IN JointTransition(hn, hw, a + 1, IF p2[1] > 0 THEN DoubleMul(p, p2) ELSE p)

\* SoftCollapse when softp is not divided by sumPW
SoftCollapseUnnormalised(gens, hw) ==
  LET n == Len(gens)
      genCov == Accumulate([k \in 1..n |-> DoubleOf(Size(gens[k]))], n)
      probabilities == [k \in 1..n |-> JointTransition(gens[k], hw, 1, DoubleOf(1))]
      sum == Accumulate(probabilities, n)
      weight == [k \in 1..n |-> DoubleDiv(DoubleOf(Size(gens[k])), genCov)]
      probabilityWeight ==
        [k \in 1..n |-> DoubleDiv(DoubleMul(weight[k], probabilities[k]), sum)]
      softp == [k \in 1..n |-> DoubleMul(DoubleOf(Size(hw)), probabilityWeight[k])]
  IN [k \in 1..n |-> [gens[k] EXCEPT !.SoftCollapses = Append(@, softp[k])]]

\* the soft-collapse of one filtered haplotype hw: every generator's
\* SoftCollapses grows by softp = 1.0 * hw->Size() * probabilityWeight[i] / sumPW;
\* SoftCollapses is kept as the sequence of the doubles added to it.
SoftCollapse(gens, hw) ==
  LET n == Len(gens)
      genCov == Accumulate([k \in 1..n |-> DoubleOf(Size(gens[k]))], n)
      probabilities == [k \in 1..n |-> JointTransition(gens[k], hw, 1, DoubleOf(1))]
      sum == Accumulate(probabilities, n)
      weight == [k \in 1..n |-> DoubleDiv(DoubleOf(Size(gens[k])), genCov)]
      probabilityWeight ==
        [k \in 1..n |-> DoubleDiv(DoubleMul(weight[k], probabilities[k]), sum)]
      sumPW == Accumulate(probabilityWeight, n)
      softp == [k \in 1..n |->
                  DoubleDiv(DoubleMul(DoubleOf(Size(hw)), probabilityWeight[k]), sumPW)]
  IN [k \in 1..n |-> [gens[k] EXCEPT !.SoftCollapses = Append(@, softp[k])]]

RECURSIVE SoftCollapseAll(_, _, _)
SoftCollapseAll(gens, filt, k) ==
  IF k > Len(filt) THEN gens
  ELSE SoftCollapseAll(SoftCollapse(gens, filt[k]), filt, k + 1)

alphabetSize ==
  26

UpperCase ==
  <<"A","B","C","D","E","F","G","H","I","J","K","L","M",
    "N","O","P","Q","R","S","T","U","V","W","X","Y","Z">>

LowerCase ==
  <<"a","b","c","d","e","f","g","h","i","j","k","l","m",
    "n","o","p","q","r","s","t","u","v","w","x","y","z">>

\* the name of the generator of rank genNumber (from 0) among n
HaplotypeName(genNumber, n) ==
  IF n > alphabetSize
    THEN <<UpperCase[(genNumber \div alphabetSize) + 1], LowerCase[(genNumber % alphabetSize) + 1]>>
    ELSE <<UpperCase[genNumber + 1]>>

\* PushHits when a flag is pushed for a hit only
RECURSIVE PushHitsOnly(_, _, _, _)
PushHitsOnly(vgs, vps, hn, k) ==
  IF k > Len(hn.Codons) THEN vgs
  ELSE PushHitsOnly(
         [vgs EXCEPT ![vps[k].gene].relPositionToVariant[vps[k].codonPos].aminoAcidToCodons =
            {[vc EXCEPT !.haplotypeHit = IF hn.Codons[k] = vc.codon THEN Append(@, TRUE) ELSE @] :
               vc \in @}],
         vps, hn, k + 1)

\* the ranking loop, one generator: every VariantCodon of every slot gets the
\* generator's hit flag pushed
RECURSIVE PushHits(_, _, _, _)
PushHits(vgs, vps, hn, k) ==
  IF k > Len(hn.Codons) THEN vgs
  ELSE PushHits(
         [vgs EXCEPT ![vps[k].gene].relPositionToVariant[vps[k].codonPos].aminoAcidToCodons =
            {[vc EXCEPT !.haplotypeHit = Append(@, hn.Codons[k] = vc.codon)] : vc \in @}],
         vps, hn, k + 1)

RECURSIVE PushAllHits(_, _, _, _)
PushAllHits(vgs, vps, gens, g) ==
  IF g > Len(gens) THEN vgs
  ELSE PushAllHits(PushHits(vgs, vps, gens[g], 1), vps, gens, g + 1)

RECURSIVE SumSizes(_)
SumSizes(hs) ==
  IF hs = <<>> THEN 0 ELSE Size(Head(hs)) + SumSizes(Tail(hs))

\* lines 146-152: the variant positions of all genes
PhaseDiscovery ==
  /\ pc = "PhaseVariants"
  /\ variantPositions' = CollectVariantPositions(variantGenes_, 1)
  /\ pc' = "cluster"
  /\ UNCHANGED <<inputs, callVars, observations, generators, filtered,
                 reconstructedHaplotypes_, filteredHaplotypes_, counts_>>

\* lines 175-225: every row joins a haplotype, unless ExtractRegionFromRow throws
PhaseCluster ==
  /\ pc = "cluster"
  /\ LET done == ClusterRows(<<>>, 1, Len(msaByRow_.Rows), msaByRow_,
                          variantPositions, variantGenes_) IN
       /\ observations' = IF done.thrown THEN <<>> ELSE done.observations
       /\ pc' = IF done.thrown THEN "aborted" ELSE "classify"
  /\ UNCHANGED <<inputs, callVars, variantPositions, generators, filtered,
                 reconstructedHaplotypes_, filteredHaplotypes_, counts_>>

\* lines 227-242: generators and filtered, each sorted by size
PhaseClassify ==
  /\ pc = "classify"
  /\ LET judged == [k \in 1..Len(observations) |-> Classify(observations[k])] IN
       /\ generators' \in StdSortAscending(FlagFree(judged, TRUE))
       /\ filtered' \in StdSortAscending(FlagFree(judged, FALSE))
  /\ observations' = <<>>
  /\ pc' = "collapse"
  /\ UNCHANGED <<inputs, callVars, variantPositions,
                 reconstructedHaplotypes_, filteredHaplotypes_, counts_>>

\* lines 244-284: the soft collapse of the filtered haplotypes
PhaseSoftCollapse ==
  /\ pc = "collapse"
  /\ generators' = IF mergeOutliers_ THEN SoftCollapseAll(generators, filtered, 1)
                   ELSE generators
  /\ pc' = "rank"
  /\ UNCHANGED <<inputs, callVars, variantPositions, observations, filtered,
                 reconstructedHaplotypes_, filteredHaplotypes_, counts_>>

\* lines 286-326: the generators ranked, named and reported
PhaseRank ==
  /\ pc = "rank"
  /\ \E ranked \in StableSortDescending(generators) :
       LET total == SumSizes(ranked)
           named == [g \in 1..Len(ranked) |->
                       [ranked[g] EXCEPT !.GlobalFrequency = <<Size(ranked[g]), total>>,
                                         !.Name = HaplotypeName(g - 1, Len(ranked))]]
       IN /\ generators' = named
          /\ variantGenes_' = PushAllHits(variantGenes_, variantPositions, named, 1)
          /\ reconstructedHaplotypes_' = reconstructedHaplotypes_ \o named
  /\ pc' = "tally"
  /\ UNCHANGED <<inputs, genes, numberOfTests, geneIdx, i, curVariantGene, geneName,
                 geneOffset, performance, tested, censusSizes, variantPositions,
                 observations, filtered, filteredHaplotypes_, counts_>>

\* lines 346-370: the read counts of the run
PhaseTally ==
  /\ pc = "tally"
  /\ filteredHaplotypes_' = filteredHaplotypes_ \o filtered
  /\ counts_' =
       [counts_ EXCEPT
          !.genCounts_ = @ + SumSizes(generators),
          !.lowCov_ = @ + SumSizes(SelectSeq(filtered, LAMBDA h : h.Flags = {LOW_COV})),
          !.margOfftarget_ = @ + SumSizes(SelectSeq(filtered, LAMBDA h : OFFTARGET \in h.Flags))]
  /\ pc' = "done"
  /\ UNCHANGED <<inputs, callVars, variantPositions, observations, generators, filtered,
                 reconstructedHaplotypes_>>

(***************************************************************************)
(* The inputs of the checked runs: a window of two codons starting at      *)
(* position 1, MSAs made of blocks of equal rows, and target               *)
(* configurations over that window.                                        *)
(***************************************************************************)
WildType ==
  <<"A","A","A","A","T","G">>

Lys2 ==
  <<"A","A","G","A","T","G">>       \* AAG (K) at codon 1

Arg ==
  <<"A","G","A","A","T","G">>       \* AGA (R) at codon 1

ArgTrp ==
  <<"A","G","A","T","G","G">>       \* AGA (R) at codon 1, TGG (W) at codon 2

LysTrp ==
  <<"A","A","G","T","G","G">>       \* AAG (K) at codon 1, TGG (W) at codon 2

ShortRow ==
  <<"A","A","G">>                   \* a row ending after codon 1

CutRow ==
  <<"A","A","G","A","T">>           \* a row ending inside codon 2

GapRow ==
  <<"A","-","A","A","T","G">>       \* a deletion in codon 1

UncoveredRow ==
  <<" "," "," ","T","G","G">>       \* codon 1 not covered

StopRow ==
  <<"T","A","A","A","T","G">>       \* a stop triplet at codon 1

RECURSIVE Repeat(_, _)
Repeat(row, n) ==
  IF n = 0 THEN <<>> ELSE <<row>> \o Repeat(row, n - 1)

RECURSIVE RowsOf(_)
RowsOf(blocks) ==
  IF blocks = <<>> THEN <<>>
  ELSE Repeat(Head(blocks)[1], Head(blocks)[2]) \o RowsOf(Tail(blocks))

MSA(rows) ==
  [BeginPos |-> 1, EndPos |-> 7, Rows |-> rows]

\* the MSAs of the runs that vary the configuration
CalledRows ==
  { RowsOf(<< <<WildType, 4>>, <<Lys2, 1>> >>),
    RowsOf(<< <<WildType, 3>>, <<Lys2, 1>> >>),
    RowsOf(<< <<Lys2, 4>>, <<WildType, 1>> >>),
    RowsOf(<< <<ArgTrp, 4>>, <<Lys2, 1>> >>),
    RowsOf(<< <<WildType, 4>> >>),
    RowsOf(<< <<Lys2, 4>>, <<ArgTrp, 4>> >>),
    RowsOf(<< <<WildType, 4>>, <<ArgTrp, 1>>, <<Lys2, 1>> >>),
    RowsOf(<< <<WildType, 1>>, <<GapRow, 1>>, <<UncoveredRow, 1>>, <<StopRow, 1>>,
              <<ShortRow, 1>>, <<CutRow, 1>> >>) }

\* the blocks of the runs that vary the reads: enough rows of a kind for a
\* generator, one more, or a single row
PhasedBlocks ==
  { <<Lys2, MinGeneratorSize>>, <<Lys2, MinGeneratorSize + 1>>, <<Lys2, 1>>,
    <<Arg, MinGeneratorSize>>, <<Arg, 1>>,
    <<ArgTrp, MinGeneratorSize>>,
    <<WildType, 1>>, <<WildType, MinGeneratorSize>>,
    <<ShortRow, 1>> }

\* MSAs with several generators beside filtered haplotypes
CollapsedRows ==
  { RowsOf(<< <<Lys2, MinGeneratorSize>>, <<Arg, MinGeneratorSize + 1>>, <<WildType, 1>> >>),
    RowsOf(<< <<LysTrp, MinGeneratorSize>>, <<Lys2, MinGeneratorSize>>,
              <<ArgTrp, MinGeneratorSize + 1>>, <<WildType, 1>> >>) }

PhasedRows ==
  { RowsOf(b) : b \in UNION {[1..m -> PhasedBlocks] : m \in 1..MaxBlocks} }
    \cup CollapsedRows

ResistanceRule ==
  [name |-> "NRTI", positions |-> {DMutation("K", 1, "R")}]

PredictedMinors ==
  {[position |-> 1, aminoacid |-> "K", codon |-> <<"A","A","G">>]}

Gene(begin, end, name, minors) ==
  [begin |-> begin, end |-> end, name |-> name, minors |-> minors,
   drms |-> <<ResistanceRule>>]

\* no gene; one gene over the window and one codon beyond it, without and with
\* a predicted minor; two genes listed against their coordinates
TargetGenes ==
  { <<>>,
    <<Gene(1, 10, "RT", {})>>,
    <<Gene(1, 10, "RT", PredictedMinors)>>,
    <<Gene(4, 7, "IN", {}), Gene(1, 4, "RT", PredictedMinors)>> }

InitCall ==
  /\ pc = "CallVariants"
  /\ genes = <<>>
  /\ numberOfTests = 0
  /\ geneIdx = 0
  /\ i = 0
  /\ curVariantGene = NewVariantGene("", 0)
  /\ geneName = ""
  /\ geneOffset = 0
  /\ performance = [truePositives |-> 0, falsePositives |-> 0,
                    falseNegative |-> 0, trueNegative |-> 0]
  /\ variantGenes_ = <<>>
  /\ tested = {}
  /\ censusSizes = 0
  /\ variantPositions = <<>>
  /\ observations = <<>>
  /\ generators = <<>>
  /\ filtered = <<>>
  /\ reconstructedHaplotypes_ = <<>>
  /\ filteredHaplotypes_ = <<>>
  /\ counts_ = [genCounts_ |-> 0, lowCov_ |-> 0, margOfftarget_ |-> 0,
                margWithGap_ |-> 0, margWithHetero_ |-> 0, margPartial_ |-> 0]

\* runs that vary the configuration over small MSAs
InitConfigured ==
  /\ msaByRow_ \in {MSA(rows) : rows \in CalledRows}
  /\ targetConfig_ \in [targetGenes : TargetGenes, referenceSequence : {<<>>, WildType}]
  /\ mergeOutliers_ = FALSE
  /\ debug_ \in BOOLEAN
  /\ drmOnly_ \in BOOLEAN
  /\ minimalPerc_ \in {0, 25}
  /\ maximalPerc_ \in {75, 100}
  /\ fisherRange = RawPValues

\* runs that vary the reads under few configurations
InitPhased ==
  /\ msaByRow_ \in {MSA(rows) : rows \in PhasedRows}
  /\ \/ /\ targetConfig_ = [targetGenes |-> <<>>, referenceSequence |-> <<>>]
        /\ debug_ = FALSE
        /\ fisherRange = {1, PScale}
     \/ /\ targetConfig_ = [targetGenes |-> <<Gene(1, 10, "RT", {})>>,
                            referenceSequence |-> WildType]
        /\ debug_ = TRUE
        /\ fisherRange = {1}
     \/ /\ targetConfig_ =
             [targetGenes |-> <<Gene(4, 7, "IN", {}), Gene(1, 4, "RT", PredictedMinors)>>,
              referenceSequence |-> WildType]
        /\ debug_ = FALSE
        /\ fisherRange = {1}
  /\ mergeOutliers_ = TRUE
  /\ drmOnly_ = FALSE
  /\ minimalPerc_ = 0
  /\ maximalPerc_ = 100

Init ==
  /\ InitCall
  /\ InitConfigured \/ InitPhased

Next ==
  \/ CallVariantsBegin
  \/ SetNewGene
  \/ CallPosition
  \/ NextGene
  \/ CallVariantsEnd
  \/ PhaseDiscovery
  \/ PhaseCluster
  \/ PhaseClassify
  \/ PhaseSoftCollapse
  \/ PhaseRank
  \/ PhaseTally

Spec ==
  Init /\ [][Next]_vars

(***************************************************************************)
(* Properties.                                                             *)
(***************************************************************************)
\* every VariantGene built so far: those kept and the one under construction
AllVariantGenes ==
  Members(variantGenes_) \cup {curVariantGene}

\* every <<gene name, codon position, VariantPosition>> built so far
PositionsBuilt ==
  UNION {{<<vg.geneName, k, vg.relPositionToVariant[k]>> : k \in DOMAIN vg.relPositionToVariant} :
         vg \in AllVariantGenes}

\* a tested codon call has become a VariantCodon of its position
Stored(t) ==
  \E e \in PositionsBuilt :
    /\ e[1] = t.geneName
    /\ e[2] = t.codonPos
    /\ \E vc \in e[3].aminoAcidToCodons : vc.codon = t.codon

hasExpectedMinors ==
  NumExpectedMinors(targetConfig_.targetGenes) > 0

hasReference ==
  targetConfig_.referenceSequence # <<>>

\* the configured gene of a name (the names of the configured genes differ)
GeneNamed(name) ==
  CHOOSE g \in Members(genes) : g.name = name

CallVariantsOver ==
  pc \notin {"CallVariants", "gene", "position", "finish"}

\* the haplotypes PhaseVariants reports: the generators, then the filtered
Reported ==
  reconstructedHaplotypes_ \o filteredHaplotypes_

\* the clusters of Reported that hold the read named r
ClustersOf(r) ==
  {k \in 1..Len(Reported) : \E j \in 1..Len(Reported[k].Names) : Reported[k].Names[j] = r}

\* PhaseVariants has ended: it has returned, or an exception has left it
PhaseVariantsOver ==
  pc \in {"done", "aborted"}

\* C1: after PhaseVariants, every row's read name is in exactly one reported
\* cluster (generators and filtered together), once, and the sizes of the
\* clusters sum to the number of rows.
C1_ReadsPartitioned ==
  PhaseVariantsOver =>
    /\ \A r \in 1..Len(msaByRow_.Rows) :
         /\ Cardinality(ClustersOf(r)) = 1
         /\ \A k \in ClustersOf(r) :
              Cardinality({j \in 1..Len(Reported[k].Names) : Reported[k].Names[j] = r}) = 1
    /\ SumSizes(Reported) = Len(msaByRow_.Rows)

\* the rows that end before the last base of some variant position's codon
ShortRows ==
  {r \in 1..Len(msaByRow_.Rows) :
     \E k \in 1..Len(variantPositions) :
       ExtractThrows(msaByRow_.Rows[r], variantPositions[k].first, msaByRow_.BeginPos)}

\* C2: PhaseVariants does not abort on a row that does not span every
\* variant position: no exception leaves it, and once it has returned such a
\* row is in a cluster that holds no row spanning all variant positions.
C2_ShortReadsKeptApart ==
  /\ pc # "aborted"
  /\ pc = "done" =>
       \A r \in ShortRows :
         /\ ClustersOf(r) # {}
         /\ \A k \in ClustersOf(r) :
              \A j \in 1..Len(Reported[k].Names) : Reported[k].Names[j] \in ShortRows

\* C3: with debug mode off, a VariantCodon is stored only if its corrected
\* p-value is below alpha and it matches a predicted minor of its gene, or
\* DRM-only mode is set and its DRM annotation is not empty, or no expected
\* minor is configured, or expected minors are configured and the codon's
\* share of the coverage is below 80%.
C3_StoredOnlyIfGated ==
  ~debug_ =>
    \A e \in PositionsBuilt : \A vc \in e[3].aminoAcidToCodons :
      /\ vc.pValue < alpha
      /\ \/ Predictor(GeneNamed(e[1]), e[2], vc.aminoAcid, vc.codon)
         \/ drmOnly_ /\ vc.knownDRM # <<>>
         \/ ~hasExpectedMinors
         \/ hasExpectedMinors /\ VariableSite(vc.frequency[1], vc.frequency[2])

\* with debug mode off and expected minors configured, a stored codon that
\* matches no predicted minor, and one that does
C3_Witness ==
  /\ ~debug_
  /\ hasExpectedMinors
  /\ \E e \in PositionsBuilt : \E vc \in e[3].aminoAcidToCodons :
       ~Predictor(GeneNamed(e[1]), e[2], vc.aminoAcid, vc.codon)
  /\ \E e \in PositionsBuilt : \E vc \in e[3].aminoAcidToCodons :
       Predictor(GeneNamed(e[1]), e[2], vc.aminoAcid, vc.codon)

\* C4 as claimed: with debug mode on, a tested codon is stored exactly when
\* its frequency in percent exceeds the minimal-percentage floor.
C4_DebugKeepsFloor ==
  debug_ =>
    \A t \in tested : Stored(t) <=> t.count * 100 > minimalPerc_ * t.coverage

\* C4 as amended: with debug mode on, every tested codon (neither reference
\* nor alternate reference, at a position that is not skipped) is stored,
\* whatever its p-value and its frequency.
C4_DebugStoresAll ==
  debug_ => \A t \in tested : Stored(t)

\* with debug mode on, a stored codon below the floor that is not significant
C4_Witness ==
  /\ debug_
  /\ \E t \in tested :
       /\ t.count * 100 < minimalPerc_ * t.coverage
       /\ ~(t.p < alpha)
       /\ Stored(t)

\* C5 as claimed: with no expected minors configured, every tested codon
\* whose corrected p-value is below alpha is stored.
C5_SignificantStored ==
  ~hasExpectedMinors => \A t \in tested : t.p < alpha => Stored(t)

\* C5 as amended: with no expected minors configured, a tested codon whose
\* corrected p-value is below alpha is stored if debug mode is on, or if its
\* frequency in percent is at least the minimal-percentage floor and, in
\* DRM-only mode, its DRM annotation is not empty.
C5_SignificantStoredAboveFloor ==
  ~hasExpectedMinors =>
    \A t \in tested :
      ( /\ t.p < alpha
        /\ \/ debug_
           \/ /\ t.count * 100 >= minimalPerc_ * t.coverage
              /\ drmOnly_ => t.knownDRM # <<>> )
      => Stored(t)

\* no expected minors, debug mode off: a significant codon at the floor is
\* stored, in a run where a significant codon below the floor was not
C5_Witness ==
  /\ ~hasExpectedMinors
  /\ ~debug_
  /\ minimalPerc_ > 0
  /\ \E t \in tested :
       t.p < alpha /\ t.count * 100 = minimalPerc_ * t.coverage /\ Stored(t)

\* C6: with an external reference configured, an alternate-reference codon
\* is set only for a majority codon that differs from the reference codon:
\* it never equals the reference codon.
C6_AltRefDiffers ==
  hasReference =>
    \A e \in PositionsBuilt : e[3].altRefCodon # <<>> => e[3].altRefCodon # e[3].refCodon

\* C7: no stored VariantCodon is the reference codon or the alternate
\* reference codon of its position.
C7_NoReferenceStored ==
  \A e \in PositionsBuilt : \A vc \in e[3].aminoAcidToCodons :
    vc.codon # e[3].refCodon /\ vc.codon # e[3].altRefCodon

\* a position with an alternate reference that differs from its reference,
\* and with a stored codon
C7_Witness ==
  \E e \in PositionsBuilt :
    /\ e[3].altRefCodon # <<>>
    /\ e[3].altRefCodon # e[3].refCodon
    /\ e[3].aminoAcidToCodons # {}

\* C8: in reconstructedHaplotypes_, in the order of the names, a generator
\* ranked before another has at least its size.
C8_RankedBySize ==
  \A a, b \in 1..Len(reconstructedHaplotypes_) :
    a < b => Size(reconstructedHaplotypes_[a]) >= Size(reconstructedHaplotypes_[b])

\* two reported generators of different sizes
C8_Witness ==
  \E a, b \in 1..Len(reconstructedHaplotypes_) :
    Size(reconstructedHaplotypes_[a]) # Size(reconstructedHaplotypes_[b])

\* the clusters are split into generators and filtered
Classified ==
  pc \in {"collapse", "rank", "tally", "done"}

\* every codon of the cluster is a hit at its variant position
AllHits(h) ==
  \A k \in 1..Len(variantPositions) :
    IsHit(PositionOf(variantGenes_, variantPositions[k]), h.Codons[k])

\* C9: a cluster is a generator exactly when it has no flag, which takes at
\* least 10 reads and a hit at every variant position; a cluster with a codon
\* that is no hit at its position is flagged OFFTARGET and is in filtered,
\* whatever its size; a cluster of fewer than 10 reads is flagged LOW_COV.
C9_GeneratorsFlagFree ==
  Classified =>
    /\ \A k \in 1..Len(generators) :
         /\ generators[k].Flags = {}
         /\ Size(generators[k]) >= 10
         /\ AllHits(generators[k])
    /\ \A k \in 1..Len(filtered) :
         /\ filtered[k].Flags # {}
         /\ OFFTARGET \in filtered[k].Flags <=> ~AllHits(filtered[k])
         /\ LOW_COV \in filtered[k].Flags <=> Size(filtered[k]) < 10

\* a generator of 10 reads beside a filtered cluster of at least 10 reads
\* with a codon that is no hit
C9_Witness ==
  /\ Classified
  /\ \E k \in 1..Len(generators) : Size(generators[k]) = 10
  /\ \E k \in 1..Len(filtered) :
       Size(filtered[k]) >= 10 /\ ~AllHits(filtered[k])

\* C10: numberOfTests is set before any codon is tested, every corrected
\* p-value of the run is its raw p-value times that one numberOfTests (capped
\* at 1), and numberOfTests is the sum of the sizes of the codon maps that
\* CallVariants builds at the codon starts of the genes.
C10_TestsCountedOnce ==
  /\ pc = "CallVariants" => tested = {}
  /\ \A t \in tested : t.p = Bonferroni(t.raw, numberOfTests)
  /\ CallVariantsOver => numberOfTests = censusSizes

\* CallVariants is over, rows were left out of a codon map (a gap, an
\* uncovered base, a stop triplet, a short row), and a codon was tested with
\* an uncapped corrected p-value
C10_Witness ==
  /\ CallVariantsOver
  /\ numberOfTests > 1
  /\ \E r \in 1..Len(msaByRow_.Rows) : ~RowCallsCodon(msaByRow_.Rows[r], 0)
  /\ \E t \in tested : t.p < PScale /\ t.p = t.raw * numberOfTests

\* the sum of the four counters of MeasurePerformance
Classifications ==
  performance.truePositives + performance.falsePositives
    + performance.falseNegative + performance.trueNegative

\* a tested call is at a variable site; it matches a predicted minor of its gene
TestedVariable(t) ==
  VariableSite(t.count, t.coverage)

TestedPredictor(t) ==
  Predictor(GeneNamed(t.geneName), t.codonPos, FromCodon[t.codon], t.codon)

\* C11 as claimed: with expected minors configured, every tested codon call
\* is counted in exactly one of the four counters, so that their sum is the
\* number of codon calls tested.
C11_EveryCallClassified ==
  hasExpectedMinors /\ CallVariantsOver => Classifications = Cardinality(tested)

\* C11 as amended: with expected minors configured, a tested codon call is
\* counted, in exactly one of the four counters, when it is at a variable
\* site (below 80% of the coverage) or matches a predicted minor, and in none
\* otherwise: true positives are the significant predicted calls, false
\* negatives the other predicted calls, false positives the significant
\* calls at a variable site that are not predicted, true negatives the other
\* calls at a variable site that are not predicted.
C11_CallsUnderTestClassified ==
  hasExpectedMinors =>
    /\ performance.truePositives =
         Cardinality({t \in tested : TestedPredictor(t) /\ t.p < alpha})
    /\ performance.falseNegative =
         Cardinality({t \in tested : TestedPredictor(t) /\ ~(t.p < alpha)})
    /\ performance.falsePositives =
         Cardinality({t \in tested : TestedVariable(t) /\ ~TestedPredictor(t) /\ t.p < alpha})
    /\ performance.trueNegative =
         Cardinality({t \in tested : TestedVariable(t) /\ ~TestedPredictor(t) /\ ~(t.p < alpha)})
    /\ Classifications =
         Cardinality({t \in tested : TestedVariable(t) \/ TestedPredictor(t)})

\* expected minors are configured, CallVariants is over, a call that is
\* neither at a variable site nor predicted was left uncounted, and a call
\* was counted
C11_Witness ==
  /\ hasExpectedMinors
  /\ CallVariantsOver
  /\ \E t \in tested : ~TestedVariable(t) /\ ~TestedPredictor(t)
  /\ Classifications > 0

\* PhaseVariants has built its list variantPositions
Discovered ==
  pc \in {"cluster", "classify", "collapse", "rank", "tally", "done", "aborted"}

\* C12: the list variantPositions holds exactly the VariantPositions of all
\* genes for which IsVariant is true, each once, and its entries are in
\* strictly increasing order of absolute position, whatever the order and the
\* overlap of the configured genes.
C12_DiscoveryOrdered ==
  Discovered =>
    /\ {<<variantPositions[k].gene, variantPositions[k].codonPos>> :
          k \in 1..Len(variantPositions)}
         = {gk \in UNION {{<<g, k>> : k \in DOMAIN variantGenes_[g].relPositionToVariant} :
                          g \in 1..Len(variantGenes_)} :
              IsVariant(variantGenes_[gk[1]].relPositionToVariant[gk[2]])}
    /\ \A a, b \in 1..Len(variantPositions) :
         a < b => variantPositions[a].first < variantPositions[b].first

\* the soft collapse is over
Collapsed ==
  pc \in {"rank", "tally", "done"}

\* the doubles added to the generators for the filtered haplotype j
Masses(j) ==
  [k \in 1..Len(generators) |-> generators[k].SoftCollapses[j]]

\* the lowest exponent of the doubles of f, and their exact sum in units of
\* 2^low
LowExponent(f) ==
  CHOOSE low \in {f[k][2] : k \in DOMAIN f} : \A k \in DOMAIN f : low <= f[k][2]

RECURSIVE ExactSum(_, _, _)
ExactSum(f, k, low) ==
  IF k = 0 THEN 0 ELSE f[k][1] * Pow2(f[k][2] - low) + ExactSum(f, k - 1, low)

\* the exact sum of the doubles of f is the integer size
SumsExactlyTo(f, size) ==
  ExactSum(f, Len(f), LowExponent(f)) = size * Pow2(0 - LowExponent(f))

\* the exact sum of the doubles of f is the integer size, but for a relative
\* error of at most two units in the last place of a double for each double summed
SumsNearlyTo(f, size) ==
  LET low == LowExponent(f)
      shift == IF low < 0 THEN 0 - low ELSE 0
      diff == ExactSum(f, Len(f), low) * Pow2(low + shift) - size * Pow2(shift)
      gap == IF diff < 0 THEN 0 - diff ELSE diff
  IN gap * Pow2(MantissaBits) <= 2 * Len(f) * size * Pow2(shift)

\* C13 as claimed: with merge-outliers on and a generator, the masses added
\* to the generators for a filtered cluster are not negative and sum exactly
\* to the size of the cluster.
C13_MassSumsExactly ==
  Collapsed /\ mergeOutliers_ /\ generators # <<>> =>
    \A j \in 1..Len(filtered) :
      /\ \A k \in 1..Len(generators) : Masses(j)[k][1] >= 0
      /\ SumsExactlyTo(Masses(j), Size(filtered[j]))

\* the masses added for every filtered cluster are not negative and sum to
\* the size of the cluster but for the rounding of the doubles, and without
\* any error when there is one generator
MassesSumNearly ==
  \A j \in 1..Len(filtered) :
    /\ \A k \in 1..Len(generators) : Masses(j)[k][1] >= 0
    /\ SumsNearlyTo(Masses(j), Size(filtered[j]))
    /\ Len(generators) = 1 => SumsExactlyTo(Masses(j), Size(filtered[j]))

\* C13 as amended: the soft collapse leaves the filtered clusters and the
\* names, codons and flags of the generators as they are, so that no read
\* moves and no size changes, and with merge-outliers on and a generator the
\* masses it adds for a filtered cluster are not negative and sum to the size
\* of the cluster up to the rounding error of the double arithmetic (exactly
\* when there is a single generator).
C13_MassSumsNearly ==
  [][pc = "collapse" =>
       /\ filtered' = filtered
       /\ Len(generators') = Len(generators)
       /\ \A k \in 1..Len(generators) :
            [generators'[k] EXCEPT !.SoftCollapses = <<>>] = generators[k]
       /\ mergeOutliers_ /\ generators # <<>> => MassesSumNearly']_vars

\* merge-outliers is on, the soft collapse is over, and the masses that two
\* generators got for a filtered cluster, one of them with transitions that
\* are 0, do not sum exactly to its size
C13_Witness ==
  /\ pc = "rank"
  /\ mergeOutliers_
  /\ Len(generators) >= 2
  /\ \E j \in 1..Len(filtered) :
       /\ ~SumsExactlyTo(Masses(j), Size(filtered[j]))
       /\ \E k \in 1..Len(generators) : \E a \in 1..Len(filtered[j].Codons) :
            Transition(generators[k].Codons[a], filtered[j].Codons[a]) = 0

\* the row that created the cluster: the first name pushed to it
DiscoveredBy(h) ==
  h.Names[1]

\* C14: of two reported generators with the same number of reads, the one
\* whose cluster was created by the earlier row is ranked, and so named,
\* before the other.
C14_TiesKeepDiscoveryOrder ==
  \A a, b \in 1..Len(reconstructedHaplotypes_) :
    ( /\ a < b
      /\ Size(reconstructedHaplotypes_[a]) = Size(reconstructedHaplotypes_[b]) )
    => DiscoveredBy(reconstructedHaplotypes_[a]) < DiscoveredBy(reconstructedHaplotypes_[b])

\* the <<gene, codon position>> of the VariantPositions of variantGenes_ for
\* which IsVariant is true
VariantKeys ==
  {gk \in UNION {{<<g, k>> : k \in DOMAIN variantGenes_[g].relPositionToVariant} :
                 g \in 1..Len(variantGenes_)} :
     IsVariant(variantGenes_[gk[1]].relPositionToVariant[gk[2]])}

\* the slots of variantPositions that point to the position of a key
SlotsOf(gk) ==
  {k \in 1..Len(variantPositions) :
     variantPositions[k].gene = gk[1] /\ variantPositions[k].codonPos = gk[2]}

\* C15: every VariantCodon of every variant position has one haplotype-hit
\* flag for each reported generator, in the order of the ranks, the flag of a
\* generator telling whether the codon is the generator's codon at the slot
\* of the position; and for every generator and every variant position
\* exactly one VariantCodon of the position has the generator's flag set.
C15_OneHitPerGenerator ==
  \A gk \in VariantKeys :
    LET vcs == variantGenes_[gk[1]].relPositionToVariant[gk[2]].aminoAcidToCodons IN
      /\ \A vc \in vcs :
           /\ Len(vc.haplotypeHit) = Len(reconstructedHaplotypes_)
           /\ \A g \in 1..Len(reconstructedHaplotypes_) : \A k \in SlotsOf(gk) :
                vc.haplotypeHit[g] <=> reconstructedHaplotypes_[g].Codons[k] = vc.codon
      /\ \A g \in 1..Len(reconstructedHaplotypes_) :
           /\ SlotsOf(gk) # {}
           /\ Cardinality({vc \in vcs : vc.haplotypeHit[g]}) = 1

\* PhaseVariants has returned with two generators over two variant
\* positions, one of them with two VariantCodons
C15_Witness ==
  /\ pc = "done"
  /\ Len(reconstructedHaplotypes_) >= 2
  /\ Cardinality(VariantKeys) >= 2
  /\ \E gk \in VariantKeys :
       Cardinality(variantGenes_[gk[1]].relPositionToVariant[gk[2]].aminoAcidToCodons) >= 2

====
